---------------------------- MODULE Spec2Model ----------------------------
(***************************************************************************)
(* Model of the user-event sink connector:                                 *)
(*   - UserEventUtils.validateData / filterNulls (src/src/UserEventUtils.ts)*)
(*   - UserEventSinkConnector.send / handleResponse                        *)
(*     (src/src/UserEventSinkConnector.ts)                                 *)
(*   - the example driver's retry loop (src/unnamed/part_002)              *)
(*                                                                         *)
(* JavaScript values are tagged records [t |-> tag, v |-> payload]; an     *)
(* object is an ordered sequence of [k, v] entries (Object.entries order). *)
(* Error messages and JSON text are real strings, built by concatenation   *)
(* exactly as the template literals of the source build them.              *)
(***************************************************************************)
EXTENDS Integers, Sequences, FiniteSets, TLC

(***************************************************************************)
(* JavaScript values                                                       *)
(***************************************************************************)
Null == [t |-> "null"]
Undef == [t |-> "undef"]
Str(s) == [t |-> "str", v |-> s]
Num(n) == [t |-> "num", v |-> n]
Bool(b) == [t |-> "bool", v |-> b]
Arr(s) == [t |-> "arr", v |-> s]
Obj(entries) == [t |-> "obj", v |-> entries]
Entry(key, val) == [k |-> key, v |-> val]

\* x == null  (true of null and undefined)
IsNullish(x) == x.t \in {"null", "undef"}

\* !x
Falsy(x) ==
    \/ IsNullish(x)
    \/ (x.t = "str" /\ x.v = "")
    \/ (x.t = "num" /\ x.v = 0)
    \/ (x.t = "bool" /\ x.v = FALSE)

\* Array.isArray(x)
IsArray(x) == x.t = "arr"

\* typeof x === 'object'  (null is handled before every use in the source)
IsObjectType(x) == x.t \in {"obj", "arr", "null"}

\* data.key : property read; undefined when the key is absent or data is
\* a primitive
Get(data, key) ==
    IF data.t = "obj" /\ \E i \in 1..Len(data.v) : data.v[i].k = key
    THEN data.v[CHOOSE i \in 1..Len(data.v) : data.v[i].k = key].v
    ELSE Undef

\* s1 + sep + s2 + ... over a sequence of strings
RECURSIVE Join(_, _)
Join(strs, sep) ==
    IF Len(strs) = 0 THEN ""
    ELSE IF Len(strs) = 1 THEN strs[1]
    ELSE strs[1] \o sep \o Join(Tail(strs), sep)

\* String(x), as used by String(data.timestamp) and by template literals
RECURSIVE ToJSString(_)
ToJSString(x) ==
    CASE x.t = "str" -> x.v
      [] x.t = "num" -> ToString(x.v)
      [] x.t = "bool" -> (IF x.v THEN "true" ELSE "false")
      [] x.t = "null" -> "null"
      [] x.t = "undef" -> "undefined"
      [] x.t = "arr" ->
            Join([i \in 1..Len(x.v) |->
                    IF IsNullish(x.v[i]) THEN "" ELSE ToJSString(x.v[i])], ",")
      [] x.t = "obj" -> "[object Object]"

\* JSON.stringify(x): keys with undefined values are skipped, undefined
\* array elements are written as null.  The strings of the model hold no
\* character that JSON escapes.
RECURSIVE Stringify(_)
Stringify(x) ==
    CASE x.t = "str" -> "\"" \o x.v \o "\""
      [] x.t = "num" -> ToString(x.v)
      [] x.t = "bool" -> (IF x.v THEN "true" ELSE "false")
      [] x.t = "null" -> "null"
      [] x.t = "undef" -> "null"
      [] x.t = "arr" ->
            "[" \o Join([i \in 1..Len(x.v) |-> Stringify(x.v[i])], ",") \o "]"
      [] x.t = "obj" ->
            LET kept == SelectSeq(x.v, LAMBDA e : e.v.t # "undef")
            IN "{" \o Join([i \in 1..Len(kept) |->
                    "\"" \o kept[i].k \o "\":" \o Stringify(kept[i].v)], ",") \o "}"

Digits == {"0", "1", "2", "3", "4", "5", "6", "7", "8", "9"}

\* isNaN(Number(s)) for a string s.  Number("") is 0; a string of decimal
\* digits with an optional leading sign is a number; every other string of
\* the model (no whitespace, no exponent, no radix prefix) is NaN.
IsNaNNumber(s) ==
    LET body == IF Len(s) > 0 /\ SubSeq(s, 1, 1) \in {"-", "+"}
                THEN SubSeq(s, 2, Len(s)) ELSE s
    IN  /\ s # ""
        /\ \/ body = ""
           \/ \E i \in 1..Len(body) : SubSeq(body, i, i) \notin Digits

\* s contains sub as a substring
Contains(s, sub) ==
    \E i \in 1..(Len(s) - Len(sub) + 1) : SubSeq(s, i, i + Len(sub) - 1) = sub

(***************************************************************************)
(* Thrown errors and normal completion                                     *)
(***************************************************************************)
NoError == [name |-> "none", message |-> ""]
SyntaxError(msg) == [name |-> "SyntaxError", message |-> msg]
Error(msg) == [name |-> "Error", message |-> msg]

(***************************************************************************)
(* UserEventUtils: validation                                              *)
(***************************************************************************)
SupportedTypes ==
    {"HOME", "LAND", "ITEM_PAGE_VIEW", "ADD_TO_CART", "ADD_TO_WISHLIST",
     "SEARCH", "PAGE_VIEW", "PURCHASE"}

\* the Map built by the constructor: event type -> validation function
testActions ==
    [ty \in SupportedTypes |->
        CASE ty \in {"HOME", "LAND"} -> "testHome"
          [] ty \in {"ITEM_PAGE_VIEW", "ADD_TO_CART", "ADD_TO_WISHLIST"} -> "testPDP"
          [] ty = "SEARCH" -> "testSearch"
          [] ty = "PAGE_VIEW" -> "testPageView"
          [] ty = "PURCHASE" -> "testPurchase"]

testCommon(data) ==
    IF Falsy(data)
    THEN SyntaxError("Data parameter cannot be null")
    ELSE IF Falsy(Get(data, "timestamp"))
    THEN SyntaxError("The timestamp field must be present: " \o Stringify(data))
    ELSE LET timestamp == ToJSString(Get(data, "timestamp"))
         IN IF timestamp = ""
            THEN SyntaxError("The timestamp field cannot be null: " \o Stringify(data))
            ELSE IF IsNaNNumber(timestamp)
            THEN SyntaxError("The timestamp field must be a Unix timestamp in milliseconds: "
                             \o Stringify(data))
            ELSE NoError

testHome(data) == NoError

\* variant: an empty items array is accepted
testPDP_EmptyAllowed(data) ==
    IF ~IsArray(Get(data, "items"))
    THEN SyntaxError("The items field must be a non-empty array: " \o Stringify(data))
    ELSE NoError

testPDP(data) ==
    IF ~IsArray(Get(data, "items")) \/ Len(Get(data, "items").v) = 0
    THEN SyntaxError("The items field must be a non-empty array: " \o Stringify(data))
    ELSE NoError

testSearch(data) ==
    IF Falsy(Get(data, "search_query"))
    THEN SyntaxError("The search_query field must be present and non-empty: "
                     \o Stringify(data))
    ELSE NoError

testPageView(data) ==
    IF Falsy(Get(data, "page_id"))
    THEN SyntaxError("The page_id field must be present and non-empty: "
                     \o Stringify(data))
    ELSE NoError

\* variant: PURCHASE reuses the rule of the product-page family
testPurchase_SameAsPDP(data) ==
    IF ~IsArray(Get(data, "items")) \/ Len(Get(data, "items").v) = 0
    THEN SyntaxError("The items field must be a non-empty array: " \o Stringify(data))
    ELSE NoError

testPurchase(data) ==
    IF ~IsArray(Get(data, "items")) \/ Len(Get(data, "items").v) = 0
    THEN SyntaxError("The items field must be a non-empty array for PURCHASE event: "
                     \o Stringify(data))
    ELSE NoError

\* validator(data) for the function the Map returned
CallValidator(fn, data) ==
    CASE fn = "testHome" -> testHome(data)
      [] fn = "testPDP" -> testPDP(data)
      [] fn = "testSearch" -> testSearch(data)
      [] fn = "testPageView" -> testPageView(data)
      [] fn = "testPurchase" -> testPurchase(data)

\* variant: an unknown key falls back to the HOME rule
testActionsGet_DefaultHome(key) ==
    IF key.t = "str" /\ key.v \in DOMAIN testActions
    THEN testActions[key.v] ELSE "testHome"

\* this.testActions.get(key): undefined (here "none") for an unknown key
testActionsGet(key) ==
    IF key.t = "str" /\ key.v \in DOMAIN testActions
    THEN testActions[key.v] ELSE "none"

\* variant: event_type is looked at before the common checks
validateData_TypeFirst(data) ==
    IF Falsy(Get(data, "event_type"))
    THEN SyntaxError("The event_type field is missing")
    ELSE LET validator == testActionsGet(Get(data, "event_type"))
         IN IF validator = "none"
            THEN SyntaxError("Unknown event type: "
                             \o ToJSString(Get(data, "event_type")))
            ELSE LET common == testCommon(data)
                 IN IF common # NoError THEN common
                    ELSE CallValidator(validator, data)

validateData(data) ==
    LET common == testCommon(data)
    IN IF common # NoError THEN common
       ELSE IF Falsy(Get(data, "event_type"))
       THEN SyntaxError("The event_type field is missing")
       ELSE LET validator == testActionsGet(Get(data, "event_type"))
            IN IF validator = "none"
               THEN SyntaxError("Unknown event type: "
                                \o ToJSString(Get(data, "event_type")))
               ELSE CallValidator(validator, data)

(***************************************************************************)
(* UserEventUtils: null filtering                                          *)
(***************************************************************************)
RECURSIVE filterNulls(_), filterArray(_)

\* variant: the kept items come out last first
filterArray_Reversed(array) ==
    IF Falsy(array) THEN Null
    ELSE LET kept == SelectSeq(array.v, LAMBDA item : ~IsNullish(item))
             n == Len(kept)
         IN Arr([i \in 1..n |->
                    IF IsArray(kept[n + 1 - i]) THEN filterArray(kept[n + 1 - i])
                    ELSE IF IsObjectType(kept[n + 1 - i]) THEN filterNulls(kept[n + 1 - i])
                    ELSE kept[n + 1 - i]])

\* variant: nested arrays are copied as they are
filterArray_NestedArraysKept(array) ==
    IF Falsy(array) THEN Null
    ELSE LET kept == SelectSeq(array.v, LAMBDA item : ~IsNullish(item))
         IN Arr([i \in 1..Len(kept) |->
                    IF IsArray(kept[i]) THEN kept[i]
                    ELSE IF IsObjectType(kept[i]) THEN filterNulls(kept[i])
                    ELSE kept[i]])

\* variant: the filter drops every falsy item
filterArray_DropsFalsy(array) ==
    IF Falsy(array) THEN Null
    ELSE LET kept == SelectSeq(array.v, LAMBDA item : ~Falsy(item))
         IN Arr([i \in 1..Len(kept) |->
                    IF IsArray(kept[i]) THEN filterArray(kept[i])
                    ELSE IF IsObjectType(kept[i]) THEN filterNulls(kept[i])
                    ELSE kept[i]])

filterArray(array) ==
    IF Falsy(array) THEN Null
    ELSE LET kept == SelectSeq(array.v, LAMBDA item : ~IsNullish(item))
         IN Arr([i \in 1..Len(kept) |->
                    IF IsArray(kept[i]) THEN filterArray(kept[i])
                    ELSE IF IsObjectType(kept[i]) THEN filterNulls(kept[i])
                    ELSE kept[i]])

\* variant: an object left without keys is returned as null
filterNulls_EmptyBecomesNull(data) ==
    IF IsNullish(data) THEN Null
    ELSE IF IsArray(data) THEN filterArray(data)
    ELSE IF ~IsObjectType(data) THEN data
    ELSE LET kept == SelectSeq(data.v, LAMBDA e : ~IsNullish(e.v))
         IN IF Len(kept) = 0 THEN Null
            ELSE Obj([i \in 1..Len(kept) |->
                    Entry(kept[i].k,
                          IF IsArray(kept[i].v) THEN filterArray(kept[i].v)
                          ELSE IF IsObjectType(kept[i].v) THEN filterNulls(kept[i].v)
                          ELSE kept[i].v)])

filterNulls(data) ==
    IF IsNullish(data) THEN Null
    ELSE IF IsArray(data) THEN filterArray(data)
    ELSE IF ~IsObjectType(data) THEN data
    ELSE LET kept == SelectSeq(data.v, LAMBDA e : ~IsNullish(e.v))
         IN Obj([i \in 1..Len(kept) |->
                    Entry(kept[i].k,
                          IF IsArray(kept[i].v) THEN filterArray(kept[i].v)
                          ELSE IF IsObjectType(kept[i].v) THEN filterNulls(kept[i].v)
                          ELSE kept[i].v)])

(***************************************************************************)
(* filterNulls and filterArray on object identities.  A heap is a sequence *)
(* of cells; a cell is an array or an object whose slots hold primitives   *)
(* or references to cells; an address is a position in the heap.           *)
(***************************************************************************)
Ref(a) == [t |-> "ref", v |-> a]

IsRef(s) == s.t = "ref"

\* Array.isArray(s)
hIsArray(h, s) == IsRef(s) /\ h[s.v].t = "arr"

\* the caller's value x built in the heap: <<heap, slot>> as [h, s]
RECURSIVE Alloc(_, _), AllocItems(_, _, _), AllocEntries(_, _, _)
Alloc(h, x) ==
    IF x.t = "arr"
    THEN LET r == AllocItems(h, x.v, <<>>)
             h1 == Append(r.h, Arr(r.s))
         IN [h |-> h1, s |-> Ref(Len(h1))]
    ELSE IF x.t = "obj"
    THEN LET r == AllocEntries(h, x.v, <<>>)
             h1 == Append(r.h, Obj(r.s))
         IN [h |-> h1, s |-> Ref(Len(h1))]
    ELSE [h |-> h, s |-> x]

AllocItems(h, items, acc) ==
    IF items = <<>> THEN [h |-> h, s |-> acc]
    ELSE LET r == Alloc(h, Head(items))
         IN AllocItems(r.h, Tail(items), Append(acc, r.s))

AllocEntries(h, entries, acc) ==
    IF entries = <<>> THEN [h |-> h, s |-> acc]
    ELSE LET r == Alloc(h, Head(entries).v)
         IN AllocEntries(r.h, Tail(entries), Append(acc, Entry(Head(entries).k, r.s)))

\* the value a slot stands for
RECURSIVE Deref(_, _)
Deref(h, s) ==
    IF ~IsRef(s) THEN s
    ELSE LET c == h[s.v]
         IN IF c.t = "arr"
            THEN Arr([i \in 1..Len(c.v) |-> Deref(h, c.v[i])])
            ELSE Obj([i \in 1..Len(c.v) |-> Entry(c.v[i].k, Deref(h, c.v[i].v))])

\* the addresses of the cells a slot leads to
RECURSIVE Reach(_, _)
Reach(h, s) ==
    IF ~IsRef(s) THEN {}
    ELSE LET c == h[s.v]
         IN {s.v} \cup UNION {Reach(h, IF c.t = "arr" THEN c.v[i] ELSE c.v[i].v) :
                                i \in 1..Len(c.v)}

RECURSIVE hFilterNulls(_, _), hFilterArray(_, _), hMapItems(_, _, _), hForEntries(_, _, _)

\* the callback of map, over the items of the filtered array in order
hMapItems(h, items, acc) ==
    IF items = <<>> THEN [h |-> h, s |-> acc]
    ELSE LET item == Head(items)
             r == IF hIsArray(h, item) THEN hFilterArray(h, item)
                  ELSE IF IsRef(item) THEN hFilterNulls(h, item)
                  ELSE [h |-> h, s |-> item]
         IN hMapItems(r.h, Tail(items), Append(acc, r.s))

\* filter allocates an array of the kept items, map allocates the result
hFilterArray(h, array) ==
    IF ~IsRef(array) /\ Falsy(array) THEN [h |-> h, s |-> Null]
    ELSE LET kept == SelectSeq(h[array.v].v, LAMBDA item : ~IsNullish(item))
             h1 == Append(h, Arr(kept))
             r == hMapItems(h1, kept, <<>>)
             h2 == Append(r.h, Arr(r.s))
         IN [h |-> h2, s |-> Ref(Len(h2))]

\* the for loop over Object.entries(data), assigning into the cell at a
hForEntries(h, a, entries) ==
    IF entries = <<>> THEN h
    ELSE LET key == Head(entries).k
             value == Head(entries).v
         IN IF IsNullish(value) THEN hForEntries(h, a, Tail(entries))
            ELSE LET r == IF hIsArray(h, value) THEN hFilterArray(h, value)
                          ELSE IF IsRef(value) THEN hFilterNulls(h, value)
                          ELSE [h |-> h, s |-> value]
                     h1 == [r.h EXCEPT ![a] = Obj(Append(@.v, Entry(key, r.s)))]
                 IN hForEntries(h1, a, Tail(entries))

\* variant: the null keys are deleted from data itself, which is returned
hFilterNulls_InPlace(h, data) ==
    IF IsNullish(data) THEN [h |-> h, s |-> Null]
    ELSE IF hIsArray(h, data) THEN hFilterArray(h, data)
    ELSE IF ~IsRef(data) THEN [h |-> h, s |-> data]
    ELSE LET a == data.v
             h1 == [h EXCEPT ![a] = Obj(<<>>)]
         IN [h |-> hForEntries(h1, a, h[a].v), s |-> data]

hFilterNulls(h, data) ==
    IF IsNullish(data) THEN [h |-> h, s |-> Null]
    ELSE IF hIsArray(h, data) THEN hFilterArray(h, data)
    ELSE IF ~IsRef(data) THEN [h |-> h, s |-> data]
    ELSE LET h1 == Append(h, Obj(<<>>))
             a == Len(h1)
         IN [h |-> hForEntries(h1, a, h[data.v].v), s |-> Ref(a)]

(***************************************************************************)
(* UserEventSinkConnector: pure parts                                      *)
(***************************************************************************)
NoResponse == [kind |-> "pending"]
Response(status, body) == [kind |-> "response", status |-> status, body |-> body]
NullResponse == [kind |-> "null"]
Thrown(err) == [kind |-> "throw", error |-> err]

\* variant: only status 200 counts as success
ResponseOk_OnlyStatus200(response) == response.status = 200

\* response.ok
ResponseOk(response) == response.status >= 200 /\ response.status < 300

\* error instanceof Error: a thrown error object [name, message] is one, a
\* thrown primitive (a tagged JavaScript value) is not
InstanceOfError(err) == "name" \in DOMAIN err

\* error instanceof SyntaxError
InstanceOfSyntaxError(err) == InstanceOfError(err) /\ err.name = "SyntaxError"

Returned(body) == [kind |-> "return", body |-> body]
Raised(err) == [kind |-> "throw", error |-> err]
NoResult == [kind |-> "none"]

\* variant: the failure message leaves the status code out
handleResponse_NoStatusInMessage(response) ==
    IF response.kind = "null"
    THEN Raised(Error("HTTP response cannot be null"))
    ELSE IF ResponseOk(response)
         THEN Returned(response.body)
         ELSE Raised(Error("Request failed: reason phrase: " \o response.body))

\* variant: no test of the response; reading text of undefined throws
handleResponse_NoNullCheck(response) ==
    IF response.kind = "null"
    THEN Raised([name |-> "TypeError",
                 message |-> "Cannot read properties of undefined (reading 'text')"])
    ELSE LET responseBody == response.body
         IN IF ResponseOk(response)
            THEN Returned(responseBody)
            ELSE Raised(Error("Request failed: status code: "
                              \o ToString(response.status)
                              \o ", reason phrase: " \o responseBody))

\* handleResponse(response): the body on 2xx, a thrown Error otherwise
handleResponse(response) ==
    IF response.kind = "null"
    THEN Raised(Error("HTTP response cannot be null"))
    ELSE LET responseBody == response.body
         IN IF ResponseOk(response)
            THEN Returned(responseBody)
            ELSE Raised(Error("Request failed: status code: "
                              \o ToString(response.status)
                              \o ", reason phrase: " \o responseBody))

\* variant: an Error caught in send is rethrown as it is
sendCatch_Rethrow(err) ==
    IF InstanceOfError(err) THEN err
    ELSE Error("Failed to send request: " \o ToJSString(err))

\* the catch clause of send: every error of the try block is wrapped
sendCatch(err) ==
    Error("Failed to send request: "
          \o (IF InstanceOfError(err) THEN err.message ELSE ToJSString(err)))

\* the try block of send once fetch has settled with `answer`
sendTry(answer) ==
    IF answer.kind = "throw"
    THEN Raised(sendCatch(answer.error))
    ELSE LET r == handleResponse(answer)
         IN IF r.kind = "throw" THEN Raised(sendCatch(r.error)) ELSE r

(***************************************************************************)
(* UserEventSinkConnector: constructor                                     *)
(***************************************************************************)
\* the white space in the arguments
IsWhiteSpace(c) == c \in {" ", "\t", "\n"}

RECURSIVE TrimStart(_)
TrimStart(s) ==
    IF Len(s) > 0 /\ IsWhiteSpace(SubSeq(s, 1, 1))
    THEN TrimStart(SubSeq(s, 2, Len(s))) ELSE s

RECURSIVE TrimEnd(_)
TrimEnd(s) ==
    IF Len(s) > 0 /\ IsWhiteSpace(SubSeq(s, Len(s), Len(s)))
    THEN TrimEnd(SubSeq(s, 1, Len(s) - 1)) ELSE s

\* value.trim()
Trim(s) == TrimEnd(TrimStart(s))

\* variant: a string of white space is accepted
validateParameter_WhiteSpaceAccepted(paramName, value) ==
    IF Falsy(value) \/ value.t # "str"
    THEN Raised(SyntaxError(paramName \o " cannot be null or empty"))
    ELSE Returned(Str(Trim(value.v)))

\* variant: the value is returned as given
validateParameter_Untrimmed(paramName, value) ==
    IF Falsy(value) \/ value.t # "str" \/ Trim(value.v) = ""
    THEN Raised(SyntaxError(paramName \o " cannot be null or empty"))
    ELSE Returned(value)

validateParameter(paramName, value) ==
    IF Falsy(value) \/ value.t # "str" \/ Trim(value.v) = ""
    THEN Raised(SyntaxError(paramName \o " cannot be null or empty"))
    ELSE Returned(Str(Trim(value.v)))

\* the constructor: the fields it has assigned when it returns or throws
construct(platformIDArg, eventApiHostnameArg, eventApiKeyArg) ==
    LET p == validateParameter("platformID", platformIDArg)
        h == validateParameter("eventApiHostname", eventApiHostnameArg)
        k == validateParameter("eventApiKey", eventApiKeyArg)
        made(pv, hv, kv, err) ==
            [platformID |-> pv, eventApiHostname |-> hv, eventApiKey |-> kv,
             error |-> err]
    IN IF p.kind = "throw" THEN made(Undef, Undef, Undef, p.error)
       ELSE IF h.kind = "throw" THEN made(p.body, Undef, Undef, h.error)
       ELSE IF k.kind = "throw" THEN made(p.body, h.body, Undef, k.error)
       ELSE made(p.body, h.body, k.body, NoError)

\* a reference to the connector that new returned
Instance == [t |-> "ref", v |-> "UserEventSinkConnector"]

\* the url and options send passes to fetch
fetchArgs(hostname, platform, apiKey, filteredJson) ==
    [url |-> hostname \o "/rmp/event/v1/platforms/" \o platform \o "/userevents",
     method |-> "POST",
     accept |-> "application/json",
     contentType |-> "application/json",
     xApiKey |-> apiKey,
     body |-> Stringify(filteredJson)]

NoRequest == [url |-> "none"]

(***************************************************************************)
(* Inputs                                                                  *)
(***************************************************************************)
\* longest list of events the driver is given
MaxEvents == 2

Opt(key, val) == IF val.t = "undef" THEN <<>> ELSE <<Entry(key, val)>>

\* an event object; a field given as Undef is an absent key
MkEvent(ty, ts, items, query, page) ==
    Obj(Opt("event_type", ty) \o Opt("timestamp", ts) \o Opt("items", items)
        \o Opt("search_query", query) \o Opt("page_id", page))

Item == Obj(<<Entry("id", Str("2199832"))>>)

TimestampValues ==
    {Undef, Null, Str("1617870506121"), Num(1617870506), Str("invalid"),
     Str(""), Num(0), Arr(<<>>)}
EventTypeValues ==
    {Undef, Null, Str(""), Str("UNKNOWN"), Str("home")}
        \cup {Str(ty) : ty \in SupportedTypes}
ItemsValues == {Undef, Null, Arr(<<>>), Arr(<<Item>>), Arr(<<Null>>), Str("x")}
SearchQueryValues == {Undef, Null, Str(""), Str("colorado vape")}
PageIdValues == {Undef, Str(""), Str("SHOP_BRANDS")}

\* the inputs validateData is checked on
ValidationInputs ==
    {Null, Str("invalid json")} \cup
    {MkEvent(ty, ts, items, query, page) :
        ty \in EventTypeValues, ts \in TimestampValues, items \in ItemsValues,
        query \in SearchQueryValues, page \in PageIdValues}

\* the events the driver is run on: null, a non-object, valid events (one
\* with null-valued fields) and events that fail each stage of validation
SendEvents ==
    {Null,
     Str("invalid json"),
     MkEvent(Str("PAGE_VIEW"), Str("1617870506121"), Undef, Undef, Str("test_page")),
     MkEvent(Str("PURCHASE"), Num(1617870506), Arr(<<Null, Item>>), Null, Undef),
     MkEvent(Str("PAGE_VIEW"), Str("1617870506121"), Undef, Undef, Undef),
     MkEvent(Str("UNKNOWN"), Str("1617870506121"), Undef, Undef, Undef),
     MkEvent(Str("HOME"), Str("invalid"), Undef, Undef, Undef)}

\* longest array at the leaves of the values filterNulls is checked on
MaxLen == 2

\* a key that the object literal does not have
Absent == [t |-> "absent"]

OptKey(key, val) == IF val.t = "absent" THEN <<>> ELSE <<Entry(key, val)>>

SeqsUpTo(S, n) == UNION {[1..k -> S] : k \in 0..n}

\* objects with keys among a, b and values in S
ObjectsOver(S) ==
    {Obj(OptKey("a", x) \o OptKey("b", y)) : x \in S \cup {Absent}, y \in S \cup {Absent}}

PruneScalars == {Null, Undef, Num(0), Str("a")}

\* scalars, and arrays and objects of scalars
PruneLevel1 ==
    PruneScalars \cup {Arr(s) : s \in SeqsUpTo(PruneScalars, MaxLen)}
        \cup ObjectsOver(PruneScalars)

\* three levels deep: the input of the unit test with one more level, and
\* the PURCHASE event of the driver with null fields added
PruneDeep ==
    {Obj(<<Entry("a", Num(1)), Entry("b", Null),
           Entry("c", Obj(<<Entry("d", Null), Entry("e", Arr(<<Null, Obj(<<Entry("g", Null)>>)>>))>>)),
           Entry("f", Arr(<<Num(1), Null, Arr(<<Null, Arr(<<Null, Num(3)>>)>>)>>))>>),
     Obj(<<Entry("timestamp", Str("1617870506121")), Entry("session_id", Str("")),
           Entry("items", Arr(<<Obj(<<Entry("id", Str("2031646")),
                                      Entry("price", Obj(<<Entry("amount", Num(50)),
                                                           Entry("currency", Null)>>)),
                                      Entry("quantity", Num(25))>>), Null>>)),
           Entry("event_type", Str("PURCHASE")), Entry("revenue", Undef)>>)}

\* the inputs filterNulls is checked on
PruneInputs ==
    PruneLevel1 \cup {Arr(<<>>)} \cup {Arr(<<x>>) : x \in PruneLevel1}
        \cup {Arr(<<x, y>>) : x \in PruneLevel1, y \in PruneLevel1}
        \cup ObjectsOver(PruneLevel1) \cup PruneDeep

\* the identity the tests construct the connector with
validPlatformId == "TEST_PLATFORM"
validHostname == "https://api.test.com"
validApiKey == "test-api-key"

\* what a caller may pass for the parameter whose valid value is valid
ParamValues(valid) ==
    {Null, Undef, Str(""), Str("   "), Str(" \t\n"), Str(valid),
     Str("  " \o valid \o " \n"), Num(5)}

ConstructorInputs ==
    {<<p, h, k>> : p \in ParamValues(validPlatformId),
                   h \in ParamValues(validHostname),
                   k \in ParamValues(validApiKey)}

\* the environment of the driver: PLATFORM_ID, API_HOSTNAME, API_KEY
DriverEnv ==
    {<<Str(validPlatformId), Str(validHostname), Str(validApiKey)>>,
     <<Str("  " \o validPlatformId \o " \n"), Str(" " \o validHostname),
       Str(validApiKey \o "\t")>>,
     <<Str(validPlatformId), Str("   "), Str(validApiKey)>>,
     <<Str(validPlatformId), Str(validHostname), Undef>>}

\* send calls in flight at the same time on one connector
MaxCalls == 2

\* close() calls
MaxCloses == 1

CallIds == 1..MaxCalls

\* the events the concurrent callers send
ConcEvents ==
    {Null,
     MkEvent(Str("PAGE_VIEW"), Str("1617870506121"), Undef, Undef, Str("test_page")),
     MkEvent(Str("PURCHASE"), Num(1617870506), Arr(<<Null, Item>>), Null, Undef),
     MkEvent(Str("UNKNOWN"), Str("1617870506121"), Undef, Undef, Undef)}

\* what the transport answers to the concurrent callers
ConcAnswers ==
    {Response(200, "{\"success\": true}"),
     Response(400, "{\"error\": \"Bad Request\"}"),
     NullResponse,
     Thrown(Error("Network Error")),
     Thrown(Str("socket hang up"))}

\* what the transport can answer to one POST
TransportAnswers ==
    {Response(200, "{\"success\": true}"), Response(204, ""),
     Response(299, "{}"), Response(300, "moved"), Response(199, "early"),
     Response(400, "{\"error\": \"Bad Request\"}"), Response(500, ""),
     NullResponse,
     Thrown(Error("Network Error")),
     Thrown([name |-> "SyntaxError", message |-> "Unexpected token"]),
     Thrown(Str("socket hang up"))}

(***************************************************************************)
(* State                                                                   *)
(***************************************************************************)
VARIABLES
    platformID, eventApiHostname, eventApiKey,  \* connector identity
    connector,      \* the caller's reference to the connector, or null
    userEvents,     \* driver: the list of events
    idx,            \* driver: index of the current event (0 before the first)
    dpc,            \* driver: control point
    retryCount,     \* driver: let retryCount
    waitTime,       \* driver: let waitTime
    caught,         \* driver: the error the outer catch received
    spc,            \* send: control point
    data,           \* send: its argument
    filteredJson,   \* send: const filteredJson
    request,        \* send: arguments of the fetch call in flight
    response,       \* send: what fetch settled with
    result,         \* send: what the promise settled with
    calls,          \* history: fetch calls made by the current send call
    sendAnswers,    \* history: transport answers to the current send call
    attempts,       \* history: send calls made for the current event
    waits,          \* history: waits made for the current event
    vpc, vdata, vresult,    \* validateData applied to one input
    ppc,            \* filterNulls applied to one input: control point
    pinput,         \* filterNulls: the argument
    presult,        \* filterNulls: the value returned
    presult2,       \* filterNulls: the value returned for presult
    heap,           \* filterNulls: the objects and arrays that exist
    hinput,         \* filterNulls: the argument, as a reference into heap
    hresult,        \* filterNulls: the value returned, as a reference
    cpc,            \* constructor called on its own: control point
    ctorArgs,       \* constructor: the three arguments as given
    ctorError,      \* constructor: the error thrown
    conc,           \* concurrent send calls, by call
    closed          \* history: number of close() calls

connVars == <<platformID, eventApiHostname, eventApiKey, connector>>
driverVars == <<userEvents, idx, dpc, retryCount, waitTime, caught, attempts, waits>>
sendVars == <<spc, data, filteredJson, request, response, result, calls, sendAnswers>>
validateVars == <<vpc, vdata, vresult>>
pruneVars == <<ppc, pinput, presult, presult2, heap, hinput, hresult>>
ctorVars == <<cpc, ctorArgs, ctorError>>
concVars == <<conc, closed>>
vars == <<connVars, driverVars, sendVars, validateVars, pruneVars, ctorVars, concVars>>

maxRetries == 3
InitialWaitTime == 100

SendTerminal == {"SUCCESS", "EXHAUSTED", "FAILED-VALIDATION", "FAILED-SANITIZING"}

\* the connector of the tests, constructed
InitConnector ==
    /\ platformID = Str(validPlatformId)
    /\ eventApiHostname = Str(validHostname)
    /\ eventApiKey = Str(validApiKey)
    /\ connector = Instance

\* no connector yet
InitNoConnector ==
    /\ platformID = Undef
    /\ eventApiHostname = Undef
    /\ eventApiKey = Undef
    /\ connector = Null

InitSendIdle ==
    /\ spc = "idle"
    /\ data = Null
    /\ filteredJson = Null
    /\ request = NoRequest
    /\ response = NoResponse
    /\ result = NoResult
    /\ calls = 0
    /\ sendAnswers = <<>>

InitValidateOff ==
    /\ vpc = "off"
    /\ vdata = Null
    /\ vresult = NoError

InitPruneOff ==
    /\ ppc = "off"
    /\ pinput = Null
    /\ presult = Null
    /\ presult2 = Null
    /\ heap = <<>>
    /\ hinput = Null
    /\ hresult = Null

InitCtorOff ==
    /\ cpc = "off"
    /\ ctorArgs = <<>>
    /\ ctorError = NoError

InitConcOff ==
    /\ conc = <<>>
    /\ closed = 0

Init ==
    /\ InitNoConnector
    /\ userEvents \in UNION {[1..n -> SendEvents] : n \in 1..MaxEvents}
    /\ idx = 0
    /\ dpc = "new"
    /\ retryCount = 0
    /\ waitTime = InitialWaitTime
    /\ caught = NoError
    /\ attempts = 0
    /\ waits = <<>>
    /\ InitSendIdle
    /\ InitValidateOff
    /\ InitPruneOff
    /\ cpc = "off"
    /\ ctorArgs \in DriverEnv
    /\ ctorError = NoError
    /\ InitConcOff

(***************************************************************************)
(* main, up to the loop: the environment check and the constructor call    *)
(***************************************************************************)
DriverNew ==
    /\ dpc = "new"
    /\ IF \E i \in 1..3 : Falsy(ctorArgs[i])
       THEN /\ caught' = Error("Required environment variables PLATFORM_ID, "
                                \o "API_HOSTNAME, and API_KEY must be set")
            /\ dpc' = "done"
            /\ UNCHANGED <<connVars, ctorError>>
       ELSE LET made == construct(ctorArgs[1], ctorArgs[2], ctorArgs[3])
            IN /\ platformID' = made.platformID
               /\ eventApiHostname' = made.eventApiHostname
               /\ eventApiKey' = made.eventApiKey
               /\ ctorError' = made.error
               /\ IF made.error = NoError
                  THEN /\ connector' = Instance
                       /\ dpc' = "for"
                       /\ UNCHANGED caught
                  ELSE /\ connector' = connector
                       /\ caught' = made.error
                       /\ dpc' = "done"
    /\ UNCHANGED <<userEvents, idx, retryCount, waitTime, attempts, waits>>
    /\ UNCHANGED <<cpc, ctorArgs>>
    /\ UNCHANGED <<sendVars, validateVars, pruneVars, concVars>>

(***************************************************************************)
(* UserEventSinkConnector.send, one step per stage                         *)
(***************************************************************************)
\* variant: the outcome of validateData is ignored
SendValidate_IgnoreValidation ==
    /\ spc = "VALIDATING"
    /\ IF Falsy(data)
       THEN /\ spc' = "FAILED-VALIDATION"
            /\ result' = Raised(SyntaxError("The data cannot be null or empty"))
       ELSE /\ spc' = "SANITIZING"
            /\ result' = result
    /\ UNCHANGED <<data, filteredJson, request, response, calls, sendAnswers>>
    /\ UNCHANGED <<connVars, driverVars, validateVars, pruneVars, ctorVars, concVars>>

\* steps 1 and 2: the null check and validateData
\* variant: a null event is taken as having nothing to validate
SendValidate_NullPasses ==
    /\ spc = "VALIDATING"
    /\ LET err == IF Falsy(data) THEN NoError ELSE validateData(data)
       IN IF err # NoError
          THEN /\ spc' = "FAILED-VALIDATION"
               /\ result' = Raised(err)
          ELSE /\ spc' = "SANITIZING"
               /\ result' = result
    /\ UNCHANGED <<data, filteredJson, request, response, calls, sendAnswers>>
    /\ UNCHANGED <<connVars, driverVars, validateVars, pruneVars, ctorVars, concVars>>

SendValidate ==
    /\ spc = "VALIDATING"
    /\ LET err == IF Falsy(data)
                  THEN SyntaxError("The data cannot be null or empty")
                  ELSE validateData(data)
       IN IF err # NoError
          THEN /\ spc' = "FAILED-VALIDATION"
               /\ result' = Raised(err)
          ELSE /\ spc' = "SANITIZING"
               /\ result' = result
    /\ UNCHANGED <<data, filteredJson, request, response, calls, sendAnswers>>
    /\ UNCHANGED <<connVars, driverVars, validateVars, pruneVars, ctorVars, concVars>>

\* variant: the event is posted as given, not the filtered one
SendSanitize_PostsUnfiltered ==
    /\ spc = "SANITIZING"
    /\ filteredJson' = filterNulls(data)
    /\ IF Falsy(filteredJson')
       THEN /\ spc' = "FAILED-SANITIZING"
            /\ result' = Raised(SyntaxError(
                    "Failed to process JSON data: filtered result is null"))
            /\ UNCHANGED <<request, calls>>
       ELSE /\ spc' = "ATTEMPT"
            /\ request' = fetchArgs(ToJSString(eventApiHostname),
                                    ToJSString(platformID),
                                    ToJSString(eventApiKey), data)
            /\ calls' = calls + 1
            /\ result' = result
    /\ UNCHANGED <<data, response, sendAnswers>>
    /\ UNCHANGED <<connVars, driverVars, validateVars, pruneVars, ctorVars, concVars>>

\* step 3, then the url and the fetch call
SendSanitize ==
    /\ spc = "SANITIZING"
    /\ filteredJson' = filterNulls(data)
    /\ IF Falsy(filteredJson')
       THEN /\ spc' = "FAILED-SANITIZING"
            /\ result' = Raised(SyntaxError(
                    "Failed to process JSON data: filtered result is null"))
            /\ UNCHANGED <<request, calls>>
       ELSE /\ spc' = "ATTEMPT"
            /\ request' = fetchArgs(ToJSString(eventApiHostname),
                                    ToJSString(platformID),
                                    ToJSString(eventApiKey), filteredJson')
            /\ calls' = calls + 1
            /\ result' = result
    /\ UNCHANGED <<data, response, sendAnswers>>
    /\ UNCHANGED <<connVars, driverVars, validateVars, pruneVars, ctorVars, concVars>>

\* the transport settles the fetch call in flight
TransportAnswer(answer) ==
    /\ spc = "ATTEMPT"
    /\ response = NoResponse
    /\ response' = answer
    /\ sendAnswers' = Append(sendAnswers, answer)
    /\ UNCHANGED <<spc, data, filteredJson, request, result, calls>>
    /\ UNCHANGED <<connVars, driverVars, validateVars, pruneVars, ctorVars, concVars>>

\* variant: a failed attempt goes back to waiting for the transport
SendSettle_RetryForever ==
    /\ spc = "ATTEMPT"
    /\ response # NoResponse
    /\ IF sendTry(response).kind = "return"
       THEN /\ result' = sendTry(response)
            /\ spc' = "SUCCESS"
            /\ UNCHANGED <<response, sendAnswers>>
       ELSE /\ response' = NoResponse
            /\ sendAnswers' = <<>>
            /\ UNCHANGED <<spc, result>>
    /\ UNCHANGED <<data, filteredJson, request, calls>>
    /\ UNCHANGED <<connVars, driverVars, validateVars, pruneVars, ctorVars, concVars>>

\* the rest of the try block and the catch clause
\* variant: a failed POST is issued again, up to maxRetries in all
SendSettle_PostsAgain ==
    /\ spc = "ATTEMPT"
    /\ response # NoResponse
    /\ IF sendTry(response).kind = "throw" /\ calls < maxRetries
       THEN /\ calls' = calls + 1
            /\ response' = NoResponse
            /\ UNCHANGED <<spc, result>>
       ELSE /\ result' = sendTry(response)
            /\ spc' = IF result'.kind = "return" THEN "SUCCESS" ELSE "EXHAUSTED"
            /\ UNCHANGED <<calls, response>>
    /\ UNCHANGED <<data, filteredJson, request, sendAnswers>>
    /\ UNCHANGED <<connVars, driverVars, validateVars, pruneVars, ctorVars, concVars>>

SendSettle ==
    /\ spc = "ATTEMPT"
    /\ response # NoResponse
    /\ result' = sendTry(response)
    /\ spc' = IF result'.kind = "return" THEN "SUCCESS" ELSE "EXHAUSTED"
    /\ UNCHANGED <<data, filteredJson, request, response, calls, sendAnswers>>
    /\ UNCHANGED <<connVars, driverVars, validateVars, pruneVars, ctorVars, concVars>>

(***************************************************************************)
(* The example driver: for each event, send with retries                   *)
(***************************************************************************)
\* variant: waitTime is declared outside the for loop
ForNext_WaitTimeNotReset ==
    /\ dpc = "for"
    /\ idx < Len(userEvents)
    /\ idx' = idx + 1
    /\ retryCount' = 0
    /\ attempts' = 0
    /\ waits' = <<>>
    /\ dpc' = "while"
    /\ UNCHANGED <<userEvents, caught, waitTime>>
    /\ UNCHANGED <<connVars, sendVars, validateVars, pruneVars, ctorVars, concVars>>

\* for (const userEvent of userEvents): next event, fresh retry state
ForNext ==
    /\ dpc = "for"
    /\ idx < Len(userEvents)
    /\ idx' = idx + 1
    /\ retryCount' = 0
    /\ waitTime' = InitialWaitTime
    /\ attempts' = 0
    /\ waits' = <<>>
    /\ dpc' = "while"
    /\ UNCHANGED <<userEvents, caught>>
    /\ UNCHANGED <<connVars, sendVars, validateVars, pruneVars, ctorVars, concVars>>

\* the list is exhausted: main returns
ForEnd ==
    /\ dpc = "for"
    /\ idx = Len(userEvents)
    /\ dpc' = "done"
    /\ UNCHANGED <<userEvents, idx, retryCount, waitTime, caught, attempts, waits>>
    /\ UNCHANGED <<connVars, sendVars, validateVars, pruneVars, ctorVars, concVars>>

\* while (retryCount < maxRetries) { await connector.send(userEvent) ...
WhileSend ==
    /\ dpc = "while"
    /\ IF retryCount < maxRetries
       THEN /\ dpc' = "await_send"
            /\ attempts' = attempts + 1
            /\ spc' = "VALIDATING"
            /\ data' = userEvents[idx]
            /\ filteredJson' = Null
            /\ request' = NoRequest
            /\ response' = NoResponse
            /\ result' = NoResult
            /\ calls' = 0
            /\ sendAnswers' = <<>>
       ELSE /\ dpc' = "for"
            /\ UNCHANGED attempts
            /\ UNCHANGED sendVars
    /\ UNCHANGED <<userEvents, idx, retryCount, waitTime, caught, waits>>
    /\ UNCHANGED <<connVars, validateVars, pruneVars, ctorVars, concVars>>

\* send resolved: break out of the retry loop
DriverSuccess ==
    /\ dpc = "await_send"
    /\ spc \in SendTerminal
    /\ result.kind = "return"
    /\ dpc' = "for"
    /\ UNCHANGED <<userEvents, idx, retryCount, waitTime, caught, attempts, waits>>
    /\ UNCHANGED <<connVars, sendVars, validateVars, pruneVars, ctorVars, concVars>>

\* variant: a SyntaxError is retried like any other error
DriverCatch_RetriesSyntaxError ==
    /\ dpc = "await_send"
    /\ spc \in SendTerminal
    /\ result.kind = "throw"
    /\ retryCount' = retryCount + 1
    /\ IF retryCount' = maxRetries
       THEN /\ caught' = result.error
            /\ dpc' = "done"
       ELSE /\ dpc' = "await_timer"
            /\ UNCHANGED caught
    /\ UNCHANGED <<userEvents, idx, waitTime, attempts, waits>>
    /\ UNCHANGED <<connVars, sendVars, validateVars, pruneVars, ctorVars, concVars>>

\* send rejected: the catch clause of the retry loop
DriverCatch ==
    /\ dpc = "await_send"
    /\ spc \in SendTerminal
    /\ result.kind = "throw"
    /\ IF InstanceOfSyntaxError(result.error)
       THEN /\ caught' = result.error
            /\ dpc' = "done"
            /\ UNCHANGED retryCount
       ELSE /\ retryCount' = retryCount + 1
            /\ IF retryCount' = maxRetries
               THEN /\ caught' = result.error
                    /\ dpc' = "done"
               ELSE /\ dpc' = "await_timer"
                    /\ UNCHANGED caught
    /\ UNCHANGED <<userEvents, idx, waitTime, attempts, waits>>
    /\ UNCHANGED <<connVars, sendVars, validateVars, pruneVars, ctorVars, concVars>>

\* setTimeout(resolve, waitTime) fires; waitTime *= 2
TimerFires ==
    /\ dpc = "await_timer"
    /\ waits' = Append(waits, waitTime)
    /\ waitTime' = waitTime * 2
    /\ dpc' = "while"
    /\ UNCHANGED <<userEvents, idx, retryCount, caught, attempts>>
    /\ UNCHANGED <<connVars, sendVars, validateVars, pruneVars, ctorVars, concVars>>

Next ==
    \/ DriverNew
    \/ ForNext
    \/ ForEnd
    \/ WhileSend
    \/ SendValidate
    \/ SendSanitize
    \/ \E answer \in TransportAnswers : TransportAnswer(answer)
    \/ SendSettle
    \/ DriverSuccess
    \/ DriverCatch
    \/ TimerFires

Spec == Init /\ [][Next]_vars

\* every step of send and of the driver is eventually taken, and the
\* transport settles every call
LiveSpec ==
    /\ Spec
    /\ WF_vars(DriverNew)
    /\ WF_vars(ForNext) /\ WF_vars(ForEnd) /\ WF_vars(WhileSend)
    /\ WF_vars(SendValidate) /\ WF_vars(SendSanitize)
    /\ WF_vars(\E answer \in TransportAnswers : TransportAnswer(answer))
    /\ WF_vars(SendSettle)
    /\ WF_vars(DriverSuccess) /\ WF_vars(DriverCatch) /\ WF_vars(TimerFires)

(***************************************************************************)
(* The plain driver of src/main.js: for each event, one send               *)
(***************************************************************************)
\* main, up to the loop: the environment check and the constructor call
MainNew ==
    /\ dpc = "m_new"
    /\ IF \E i \in 1..3 : Falsy(ctorArgs[i])
       THEN /\ caught' = Error("Required environment variables PLATFORM_ID, "
                                \o "API_HOSTNAME, and API_KEY must be set")
            /\ dpc' = "done"
            /\ UNCHANGED <<connVars, ctorError>>
       ELSE LET made == construct(ctorArgs[1], ctorArgs[2], ctorArgs[3])
            IN /\ platformID' = made.platformID
               /\ eventApiHostname' = made.eventApiHostname
               /\ eventApiKey' = made.eventApiKey
               /\ ctorError' = made.error
               /\ IF made.error = NoError
                  THEN /\ connector' = Instance
                       /\ dpc' = "m_for"
                       /\ UNCHANGED caught
                  ELSE /\ connector' = connector
                       /\ caught' = made.error
                       /\ dpc' = "done"
    /\ UNCHANGED <<userEvents, idx, retryCount, waitTime, attempts, waits>>
    /\ UNCHANGED <<cpc, ctorArgs>>
    /\ UNCHANGED <<sendVars, validateVars, pruneVars, concVars>>

\* for (const userEvent of userEvents) { await connector.send(userEvent)
MainForNext ==
    /\ dpc = "m_for"
    /\ idx < Len(userEvents)
    /\ idx' = idx + 1
    /\ attempts' = 1
    /\ dpc' = "m_await"
    /\ spc' = "VALIDATING"
    /\ data' = userEvents[idx']
    /\ filteredJson' = Null
    /\ request' = NoRequest
    /\ response' = NoResponse
    /\ result' = NoResult
    /\ calls' = 0
    /\ sendAnswers' = <<>>
    /\ UNCHANGED <<userEvents, retryCount, waitTime, caught, waits>>
    /\ UNCHANGED <<connVars, validateVars, pruneVars, ctorVars, concVars>>

\* the list is exhausted: main returns
MainForEnd ==
    /\ dpc = "m_for"
    /\ idx = Len(userEvents)
    /\ dpc' = "done"
    /\ UNCHANGED <<userEvents, idx, retryCount, waitTime, caught, attempts, waits>>
    /\ UNCHANGED <<connVars, sendVars, validateVars, pruneVars, ctorVars, concVars>>

\* send resolved: the event is logged and the loop goes on
MainSuccess ==
    /\ dpc = "m_await"
    /\ spc \in SendTerminal
    /\ result.kind = "return"
    /\ dpc' = "m_for"
    /\ UNCHANGED <<userEvents, idx, retryCount, waitTime, caught, attempts, waits>>
    /\ UNCHANGED <<connVars, sendVars, validateVars, pruneVars, ctorVars, concVars>>

\* variant: the catch clause is inside the loop
MainCatch_Continues ==
    /\ dpc = "m_await"
    /\ spc \in SendTerminal
    /\ result.kind = "throw"
    /\ caught' = result.error
    /\ dpc' = "m_for"
    /\ UNCHANGED <<userEvents, idx, retryCount, waitTime, attempts, waits>>
    /\ UNCHANGED <<connVars, sendVars, validateVars, pruneVars, ctorVars, concVars>>

\* send rejected: the catch clause around the loop logs the error
MainCatch ==
    /\ dpc = "m_await"
    /\ spc \in SendTerminal
    /\ result.kind = "throw"
    /\ caught' = result.error
    /\ dpc' = "done"
    /\ UNCHANGED <<userEvents, idx, retryCount, waitTime, attempts, waits>>
    /\ UNCHANGED <<connVars, sendVars, validateVars, pruneVars, ctorVars, concVars>>

NextMain ==
    \/ MainNew
    \/ MainForNext
    \/ MainForEnd
    \/ MainSuccess
    \/ MainCatch

\* either driver is run on the list of events
InitDrivers ==
    /\ InitNoConnector
    /\ userEvents \in UNION {[1..n -> SendEvents] : n \in 1..MaxEvents}
    /\ idx = 0
    /\ dpc \in {"new", "m_new"}
    /\ retryCount = 0
    /\ waitTime = InitialWaitTime
    /\ caught = NoError
    /\ attempts = 0
    /\ waits = <<>>
    /\ InitSendIdle
    /\ InitValidateOff
    /\ InitPruneOff
    /\ cpc = "off"
    /\ ctorArgs \in DriverEnv
    /\ ctorError = NoError
    /\ InitConcOff

NextDrivers == Next \/ NextMain

SpecDrivers == InitDrivers /\ [][NextDrivers]_vars

(***************************************************************************)
(* validateData applied to one input                                       *)
(***************************************************************************)
InitValidate ==
    /\ InitConnector
    /\ userEvents = <<>>
    /\ idx = 0
    /\ dpc = "off"
    /\ retryCount = 0
    /\ waitTime = InitialWaitTime
    /\ caught = NoError
    /\ attempts = 0
    /\ waits = <<>>
    /\ InitSendIdle
    /\ vpc = "input"
    /\ vdata \in ValidationInputs
    /\ vresult = NoError
    /\ InitPruneOff
    /\ InitCtorOff
    /\ InitConcOff

Validate ==
    /\ vpc = "input"
    /\ vresult' = validateData(vdata)
    /\ vpc' = "validated"
    /\ UNCHANGED vdata
    /\ UNCHANGED <<connVars, driverVars, sendVars, pruneVars, ctorVars, concVars>>

NextValidate == Validate

SpecValidate == InitValidate /\ [][NextValidate]_vars

(***************************************************************************)
(* filterNulls applied to one input, and again to what it returned         *)
(***************************************************************************)
InitPrune ==
    /\ InitConnector
    /\ userEvents = <<>>
    /\ idx = 0
    /\ dpc = "off"
    /\ retryCount = 0
    /\ waitTime = InitialWaitTime
    /\ caught = NoError
    /\ attempts = 0
    /\ waits = <<>>
    /\ InitSendIdle
    /\ InitValidateOff
    /\ ppc = "input"
    /\ pinput \in PruneInputs
    /\ presult = Null
    /\ presult2 = Null
    /\ heap = Alloc(<<>>, pinput).h
    /\ hinput = Alloc(<<>>, pinput).s
    /\ hresult = Null
    /\ InitCtorOff
    /\ InitConcOff

Prune ==
    /\ ppc = "input"
    /\ presult' = filterNulls(pinput)
    /\ heap' = hFilterNulls(heap, hinput).h
    /\ hresult' = hFilterNulls(heap, hinput).s
    /\ ppc' = "pruned"
    /\ UNCHANGED <<pinput, presult2, hinput>>
    /\ UNCHANGED <<connVars, driverVars, sendVars, validateVars, ctorVars, concVars>>

PruneAgain ==
    /\ ppc = "pruned"
    /\ presult2' = filterNulls(presult)
    /\ heap' = hFilterNulls(heap, hresult).h
    /\ ppc' = "twice"
    /\ UNCHANGED <<pinput, presult, hinput, hresult>>
    /\ UNCHANGED <<connVars, driverVars, sendVars, validateVars, ctorVars, concVars>>

NextPrune == Prune \/ PruneAgain

SpecPrune == InitPrune /\ [][NextPrune]_vars

(***************************************************************************)
(* The constructor called on its own                                       *)
(***************************************************************************)
InitConstruct ==
    /\ InitNoConnector
    /\ userEvents = <<>>
    /\ idx = 0
    /\ dpc = "off"
    /\ retryCount = 0
    /\ waitTime = InitialWaitTime
    /\ caught = NoError
    /\ attempts = 0
    /\ waits = <<>>
    /\ InitSendIdle
    /\ InitValidateOff
    /\ InitPruneOff
    /\ cpc = "new"
    /\ ctorArgs \in ConstructorInputs
    /\ ctorError = NoError
    /\ InitConcOff

\* new UserEventSinkConnector(platformID, eventApiHostname, eventApiKey)
Construct ==
    /\ cpc = "new"
    /\ LET made == construct(ctorArgs[1], ctorArgs[2], ctorArgs[3])
       IN /\ platformID' = made.platformID
          /\ eventApiHostname' = made.eventApiHostname
          /\ eventApiKey' = made.eventApiKey
          /\ ctorError' = made.error
          /\ connector' = IF made.error = NoError THEN Instance ELSE connector
    /\ cpc' = "done"
    /\ UNCHANGED ctorArgs
    /\ UNCHANGED <<driverVars, sendVars, validateVars, pruneVars, concVars>>

NextConstruct == Construct

SpecConstruct == InitConstruct /\ [][NextConstruct]_vars

(***************************************************************************)
(* Concurrent send calls on one connector.  A call runs from its start to  *)
(* its first await without interruption; the other calls run in between    *)
(* its awaits.                                                             *)
(***************************************************************************)
\* the locals of a send call that has not started
IdleCall ==
    [pc |-> "idle", data |-> Null, filteredJson |-> Null, request |-> NoRequest,
     response |-> NoResponse, result |-> NoResult]

InitConcurrent ==
    /\ InitConnector
    /\ userEvents = <<>>
    /\ idx = 0
    /\ dpc = "off"
    /\ retryCount = 0
    /\ waitTime = InitialWaitTime
    /\ caught = NoError
    /\ attempts = 0
    /\ waits = <<>>
    /\ InitSendIdle
    /\ InitValidateOff
    /\ InitPruneOff
    /\ InitCtorOff
    /\ conc = [c \in CallIds |-> IdleCall]
    /\ closed = 0

\* connector.send(event), up to await fetch(...)
CSend(c, event) ==
    /\ conc[c].pc = "idle"
    /\ LET err == IF Falsy(event)
                  THEN SyntaxError("The data cannot be null or empty")
                  ELSE validateData(event)
           filtered == filterNulls(event)
       IN conc' = [conc EXCEPT ![c] =
            IF err # NoError
            THEN [@ EXCEPT !.pc = "FAILED-VALIDATION", !.data = event,
                           !.result = Raised(err)]
            ELSE IF Falsy(filtered)
            THEN [@ EXCEPT !.pc = "FAILED-SANITIZING", !.data = event,
                           !.filteredJson = filtered,
                           !.result = Raised(SyntaxError(
                               "Failed to process JSON data: filtered result is null"))]
            ELSE [@ EXCEPT !.pc = "ATTEMPT", !.data = event,
                           !.filteredJson = filtered,
                           !.request = fetchArgs(ToJSString(eventApiHostname),
                                                 ToJSString(platformID),
                                                 ToJSString(eventApiKey), filtered)]]
    /\ UNCHANGED closed
    /\ UNCHANGED <<connVars, driverVars, sendVars, validateVars, pruneVars, ctorVars>>

\* the transport settles the fetch of call c
CTransport(c, answer) ==
    /\ conc[c].pc = "ATTEMPT"
    /\ conc[c].response = NoResponse
    /\ conc' = [conc EXCEPT ![c].response = answer]
    /\ UNCHANGED closed
    /\ UNCHANGED <<connVars, driverVars, sendVars, validateVars, pruneVars, ctorVars>>

\* variant: the response is kept in one place for all the calls
CSettle_SharedResponse(c) ==
    /\ conc[c].pc = "ATTEMPT"
    /\ conc[c].response # NoResponse
    /\ LET shared == IF \E d \in CallIds : d < c /\ conc[d].response # NoResponse
                     THEN conc[CHOOSE d \in CallIds :
                                d < c /\ conc[d].response # NoResponse].response
                     ELSE conc[c].response
           r == sendTry(shared)
       IN conc' = [conc EXCEPT ![c].result = r,
                               ![c].pc = IF r.kind = "return"
                                          THEN "SUCCESS" ELSE "EXHAUSTED"]
    /\ UNCHANGED closed
    /\ UNCHANGED <<connVars, driverVars, sendVars, validateVars, pruneVars, ctorVars>>

\* call c resumes after await fetch: handleResponse, or the catch clause
CSettle(c) ==
    /\ conc[c].pc = "ATTEMPT"
    /\ conc[c].response # NoResponse
    /\ LET r == sendTry(conc[c].response)
       IN conc' = [conc EXCEPT ![c].result = r,
                               ![c].pc = IF r.kind = "return"
                                          THEN "SUCCESS" ELSE "EXHAUSTED"]
    /\ UNCHANGED closed
    /\ UNCHANGED <<connVars, driverVars, sendVars, validateVars, pruneVars, ctorVars>>

\* connector.close(): nothing but the count of the calls changes
Close ==
    /\ closed < MaxCloses
    /\ closed' = closed + 1
    /\ UNCHANGED conc
    /\ UNCHANGED <<connVars, driverVars, sendVars, validateVars, pruneVars, ctorVars>>

NextConcurrent ==
    \/ \E c \in CallIds : \E event \in ConcEvents : CSend(c, event)
    \/ \E c \in CallIds : \E answer \in ConcAnswers : CTransport(c, answer)
    \/ \E c \in CallIds : CSettle(c)
    \/ Close

SpecConcurrent == InitConcurrent /\ [][NextConcurrent]_vars

(***************************************************************************)
(* One call of send on a constructed connector                             *)
(***************************************************************************)
InitSend ==
    /\ InitConnector
    /\ userEvents = <<>>
    /\ idx = 0
    /\ dpc = "off"
    /\ retryCount = 0
    /\ waitTime = InitialWaitTime
    /\ caught = NoError
    /\ attempts = 0
    /\ waits = <<>>
    /\ spc = "VALIDATING"
    /\ data \in ValidationInputs
    /\ filteredJson = Null
    /\ request = NoRequest
    /\ response = NoResponse
    /\ result = NoResult
    /\ calls = 0
    /\ sendAnswers = <<>>
    /\ InitValidateOff
    /\ InitPruneOff
    /\ InitCtorOff
    /\ InitConcOff

NextSend ==
    \/ SendValidate
    \/ SendSanitize
    \/ \E answer \in TransportAnswers : TransportAnswer(answer)
    \/ SendSettle

SpecSend == InitSend /\ [][NextSend]_vars

TypeOK ==
    /\ dpc \in {"off", "new", "for", "m_new", "m_for", "m_await", "while", "await_send", "await_timer", "done"}
    /\ spc \in {"idle", "VALIDATING", "SANITIZING", "ATTEMPT"} \cup SendTerminal
    /\ idx \in 0..Len(userEvents)
    /\ retryCount \in 0..maxRetries

(***************************************************************************)
(* Vocabulary of the properties                                            *)
(***************************************************************************)
\* a transport answer with a status in the 2xx range
Is2xx(answer) ==
    answer.kind = "response" /\ answer.status \in 200..299

IsStatus(answer, status) ==
    answer.kind = "response" /\ answer.status = status

\* the text a thrown transport error carries
ThrownText(answer) ==
    IF "name" \in DOMAIN answer.error
    THEN answer.error.message ELSE ToJSString(answer.error)

\* send was given null, or an event that validateData rejects
FailsValidation(event) == Falsy(event) \/ validateData(event) # NoError

RECURSIVE Pow2(_)
Pow2(n) == IF n = 0 THEN 1 ELSE 2 * Pow2(n - 1)

RECURSIVE SumSeq(_)
SumSeq(seq) == IF seq = <<>> THEN 0 ELSE Head(seq) + SumSeq(Tail(seq))

(***************************************************************************)
(* C1: for an event that passes validation, when the transport answers the *)
(* first attempt with a 2xx status, send makes exactly one network call,   *)
(* makes no further attempt, and returns that response's body verbatim.    *)
(***************************************************************************)
C1_FirstAttempt2xxReturnsBody ==
    (~FailsValidation(data) /\ Len(sendAnswers) >= 1 /\ Is2xx(sendAnswers[1])) =>
        /\ calls = 1
        /\ Len(sendAnswers) = 1
        /\ spc \in {"ATTEMPT", "SUCCESS"}
        /\ spc = "SUCCESS" => result = Returned(sendAnswers[1].body)

C1_Witness ==
    /\ spc = "SUCCESS"
    /\ calls = 1
    /\ sendAnswers = <<Response(204, "")>>
    /\ result = Returned("")

(***************************************************************************)
(* C2: when the transport returns status 400 on every attempt, a single    *)
(* send call performs exactly maxRetries = 3 network calls and then fails  *)
(* with an error identifying status 400.  (send has no wait of its own, so *)
(* the waits of the claim have nothing in send to be measured on; the      *)
(* number of calls already differs.)                                       *)
(***************************************************************************)
C2_SendMakesThreeCallsOn400 ==
    (/\ spc \in SendTerminal
     /\ Len(sendAnswers) >= 1
     /\ \A i \in 1..Len(sendAnswers) : IsStatus(sendAnswers[i], 400)) =>
        /\ calls = maxRetries
        /\ result.kind = "throw"
        /\ Contains(result.error.message, "400")

(***************************************************************************)
(* C3: when the transport throws on attempt 1 and returns 200 on attempt   *)
(* 2, send succeeds with the body of the second attempt: a send call whose *)
(* first attempt threw does not settle before a second attempt, and        *)
(* succeeds when that one is answered with 200.                            *)
(***************************************************************************)
C3_SendRetriesAfterNetworkError ==
    (/\ spc \in SendTerminal
     /\ Len(sendAnswers) >= 1
     /\ sendAnswers[1].kind = "throw") =>
        /\ Len(sendAnswers) >= 2
        /\ IsStatus(sendAnswers[2], 200) =>
              /\ spc = "SUCCESS"
              /\ result = Returned(sendAnswers[2].body)

(***************************************************************************)
(* C4: for an input that is null or fails validation, send fails before    *)
(* any network call: no POST is issued, the transport is never asked, and  *)
(* the driver neither waits nor calls send again for that event.           *)
(***************************************************************************)
C4_InvalidInputNeverReachesNetwork ==
    (spc # "idle" /\ FailsValidation(data)) =>
        /\ spc \in {"VALIDATING", "FAILED-VALIDATION"}
        /\ calls = 0
        /\ request = NoRequest
        /\ response = NoResponse
        /\ sendAnswers = <<>>
        /\ attempts = 1
        /\ waits = <<>>
        /\ spc = "FAILED-VALIDATION" => result.kind = "throw"
        /\ dpc \in {"await_send", "done"}

C4_Witness ==
    /\ idx = 2
    /\ dpc = "done"
    /\ spc = "FAILED-VALIDATION"
    /\ ~Falsy(data)
    /\ calls = 0
    /\ caught = result.error

C7_BackoffSchedule ==
    dpc # "off" =>
        /\ \A i \in 1..Len(waits) : waits[i] = 100 * Pow2(i - 1)
        /\ waitTime = 100 * Pow2(Len(waits))
        /\ Len(waits) <= maxRetries - 1
        /\ Len(waits) <= attempts
        /\ (dpc = "while" /\ attempts = 0) => (waitTime = 100 /\ waits = <<>>)
        /\ (dpc = "done" /\ idx >= 1 /\ caught # NoError /\ caught.name # "SyntaxError") =>
              /\ attempts = maxRetries
              /\ SumSeq(waits) = 100 * (Pow2(maxRetries - 1) - 1)
        /\ (dpc = "done" /\ caught.name = "SyntaxError") => waits = <<>>

C7_Witness ==
    /\ dpc = "done"
    /\ idx = 2
    /\ caught.name = "Error"
    /\ attempts = maxRetries
    /\ waits = <<100, 200>>

(***************************************************************************)
(* C8: every send call terminates when the transport settles each call:    *)
(* a call starts in VALIDATING, ends in SUCCESS, EXHAUSTED or              *)
(* FAILED-VALIDATION, makes at most one network call, and is made at most  *)
(* maxRetries times for one event.                                         *)
(***************************************************************************)
C8_SendTerminates ==
    /\ [](spc = "VALIDATING" =>
            <>(spc \in {"SUCCESS", "EXHAUSTED", "FAILED-VALIDATION"}))
    /\ [](spc \in {"idle", "VALIDATING", "SANITIZING", "ATTEMPT",
                   "SUCCESS", "EXHAUSTED", "FAILED-VALIDATION"})
    /\ [](calls <= 1 /\ attempts <= maxRetries)
    /\ [][attempts' # attempts /\ attempts' # 0 => spc' = "VALIDATING"]_vars

C8_Witness ==
    /\ spc = "EXHAUSTED"
    /\ attempts = maxRetries
    /\ calls = 1
    /\ dpc = "done"

(***************************************************************************)
(* Vocabulary of the validation properties                                 *)
(***************************************************************************)
\* a timestamp as the data model asks for it: a positive number or a
\* non-empty string of decimal digits
ValidTimestamp(value) ==
    \/ value.t = "num" /\ value.v > 0
    \/ /\ value.t = "str"
       /\ value.v # ""
       /\ \A i \in 1..Len(value.v) : SubSeq(value.v, i, i) \in Digits

\* the field is there with a value (not absent, not null)
Present(value) == value.t \notin {"undef", "null"}

NonEmptyString(value) == value.t = "str" /\ value.v # ""

NonEmptySequence(value) == value.t = "arr" /\ Len(value.v) > 0

HasSupportedType(event) ==
    /\ Get(event, "event_type").t = "str"
    /\ Get(event, "event_type").v \in
         {"HOME", "LAND", "ITEM_PAGE_VIEW", "ADD_TO_CART", "ADD_TO_WISHLIST",
          "SEARCH", "PAGE_VIEW", "PURCHASE"}

\* the type-specific rule of the table of supported event types
RequiredFieldGiven(event) ==
    LET ty == Get(event, "event_type").v
    IN CASE ty \in {"HOME", "LAND"} -> TRUE
         [] ty \in {"ITEM_PAGE_VIEW", "ADD_TO_CART", "ADD_TO_WISHLIST", "PURCHASE"} ->
                NonEmptySequence(Get(event, "items"))
         [] ty = "SEARCH" -> NonEmptyString(Get(event, "search_query"))
         [] ty = "PAGE_VIEW" -> NonEmptyString(Get(event, "page_id"))

(***************************************************************************)
(* C9 as stated: for an event with a valid timestamp whose event_type is   *)
(* present but not a supported type, validateData fails with an error      *)
(* naming that type.                                                       *)
(***************************************************************************)
C9_PresentUnknownTypeIsNamed ==
    (/\ vpc = "validated"
     /\ vdata.t = "obj"
     /\ ValidTimestamp(Get(vdata, "timestamp"))
     /\ Present(Get(vdata, "event_type"))
     /\ ~HasSupportedType(vdata)) =>
        /\ vresult.name = "SyntaxError"
        /\ vresult.message = "Unknown event type: " \o Get(vdata, "event_type").v

(***************************************************************************)
(* C9 as amended: for an event with a valid timestamp whose event_type is  *)
(* present and non-empty but not a supported type, validateData fails with *)
(* an error naming that type; an empty event_type is reported as missing.  *)
(***************************************************************************)
C9_NonEmptyUnknownTypeIsNamed ==
    (/\ vpc = "validated"
     /\ vdata.t = "obj"
     /\ ValidTimestamp(Get(vdata, "timestamp"))
     /\ Present(Get(vdata, "event_type"))
     /\ ~HasSupportedType(vdata)) =>
        /\ vresult.name = "SyntaxError"
        /\ IF NonEmptyString(Get(vdata, "event_type"))
           THEN vresult.message = "Unknown event type: " \o Get(vdata, "event_type").v
           ELSE vresult.message = "The event_type field is missing"

C9_Witness ==
    /\ vpc = "validated"
    /\ ValidTimestamp(Get(vdata, "timestamp"))
    /\ Get(vdata, "event_type") = Str("home")
    /\ Get(vdata, "page_id") = Str("SHOP_BRANDS")
    /\ vresult = SyntaxError("Unknown event type: home")

(***************************************************************************)
(* C10: for an event with a valid timestamp and a supported event_type,    *)
(* validateData fails if and only if the type-specific required field is   *)
(* missing or empty: items a non-empty sequence for ITEM_PAGE_VIEW,        *)
(* ADD_TO_CART, ADD_TO_WISHLIST and PURCHASE, search_query non-empty for   *)
(* SEARCH, page_id non-empty for PAGE_VIEW; HOME and LAND always pass.     *)
(***************************************************************************)
C10_FailsIffRequiredFieldMissing ==
    (/\ vpc = "validated"
     /\ vdata.t = "obj"
     /\ ValidTimestamp(Get(vdata, "timestamp"))
     /\ HasSupportedType(vdata)) =>
        /\ (vresult # NoError) <=> ~RequiredFieldGiven(vdata)
        /\ vresult # NoError => vresult.name = "SyntaxError"

C10_Witness ==
    /\ vpc = "validated"
    /\ ValidTimestamp(Get(vdata, "timestamp"))
    /\ Get(vdata, "event_type") = Str("ADD_TO_CART")
    /\ Get(vdata, "items") = Arr(<<>>)
    /\ vresult.name = "SyntaxError"

(***************************************************************************)
(* C11: whatever the event_type, validateData fails with a data-format     *)
(* error whose message includes the serialized event when timestamp is     *)
(* missing, null, or a string that is not a number, and it passes the      *)
(* timestamp check when timestamp is a number or a numeric string.         *)
(***************************************************************************)
StartsWith(s, prefix) ==
    Len(s) >= Len(prefix) /\ SubSeq(s, 1, Len(prefix)) = prefix

\* the error is one of the errors of the timestamp check
IsTimestampError(err) ==
    err.name = "SyntaxError" /\ StartsWith(err.message, "The timestamp field")

NumericString(value) ==
    /\ value.t = "str"
    /\ value.v # ""
    /\ \A i \in 1..Len(value.v) : SubSeq(value.v, i, i) \in Digits

NonNumericString(value) ==
    /\ value.t = "str"
    /\ \E i \in 1..Len(value.v) : SubSeq(value.v, i, i) \notin Digits

C11_TimestampCheck ==
    (vpc = "validated" /\ vdata.t = "obj") =>
        LET ts == Get(vdata, "timestamp")
        IN /\ (~Present(ts) \/ NonNumericString(ts)) =>
                /\ IsTimestampError(vresult)
                /\ Contains(vresult.message, Stringify(vdata))
           /\ (ts.t = "num" \/ NumericString(ts)) => ~IsTimestampError(vresult)

(***************************************************************************)
(* C12: a PURCHASE event whose items is missing or empty fails with an     *)
(* error that says it is about a PURCHASE event, and the error raised for  *)
(* the same condition on ITEM_PAGE_VIEW, ADD_TO_CART or ADD_TO_WISHLIST    *)
(* does not say so: the two families are told apart by the error alone.    *)
(***************************************************************************)
C12_PurchaseErrorIsDistinct ==
    (/\ vpc = "validated"
     /\ vdata.t = "obj"
     /\ ValidTimestamp(Get(vdata, "timestamp"))
     /\ HasSupportedType(vdata)
     /\ ~NonEmptySequence(Get(vdata, "items"))) =>
        LET ty == Get(vdata, "event_type").v
        IN /\ ty = "PURCHASE" =>
                /\ vresult.name = "SyntaxError"
                /\ Contains(vresult.message, "items")
                /\ Contains(vresult.message, "PURCHASE event")
           /\ ty \in {"ITEM_PAGE_VIEW", "ADD_TO_CART", "ADD_TO_WISHLIST"} =>
                /\ vresult.name = "SyntaxError"
                /\ Contains(vresult.message, "items")
                /\ ~Contains(vresult.message, "PURCHASE event")

C12_Witness ==
    /\ vpc = "validated"
    /\ ValidTimestamp(Get(vdata, "timestamp"))
    /\ Get(vdata, "event_type") = Str("PURCHASE")
    /\ Get(vdata, "items") = Arr(<<>>)
    /\ Contains(vresult.message, "for PURCHASE event")

(***************************************************************************)
(* Vocabulary of the filtering properties                                  *)
(***************************************************************************)
\* a null or undefined value occurs in x, at any depth
RECURSIVE HasNullInside(_)
HasNullInside(x) ==
    \/ x.t \in {"null", "undef"}
    \/ x.t = "arr" /\ \E i \in 1..Len(x.v) : HasNullInside(x.v[i])
    \/ x.t = "obj" /\ \E i \in 1..Len(x.v) : HasNullInside(x.v[i].v)

(***************************************************************************)
(* C13: filterNulls is idempotent: applied to its own result it returns a  *)
(* structurally equal value, for null, scalar, array and object inputs     *)
(* nested up to three levels; and filterNulls(null) is null.               *)
(***************************************************************************)
C13_PruneIdempotent ==
    /\ ppc = "twice" => presult2 = presult
    /\ (ppc \in {"pruned", "twice"} /\ pinput.t \in {"null", "undef"}) =>
            presult = Null

C13_Witness ==
    /\ ppc = "twice"
    /\ pinput = Obj(<<Entry("a", Obj(<<Entry("a", Null)>>)),
                      Entry("b", Arr(<<Null, Num(0)>>))>>)
    /\ presult = Obj(<<Entry("a", Obj(<<>>)), Entry("b", Arr(<<Num(0)>>))>>)
    /\ presult2 = presult

(***************************************************************************)
(* C14: for a non-null input the result of filterNulls holds no null or    *)
(* undefined value at any depth: no key of any object in it maps to one    *)
(* and no array in it has one as element, objects in arrays and arrays in  *)
(* arrays included.                                                        *)
(***************************************************************************)
C14_PrunedHasNoNull ==
    (ppc \in {"pruned", "twice"} /\ pinput.t \notin {"null", "undef"}) =>
        ~HasNullInside(presult)

C14_Witness ==
    /\ ppc = "pruned"
    /\ pinput = Arr(<<Arr(<<Null, Str("a")>>), Obj(<<Entry("a", Null), Entry("b", Num(0))>>)>>)
    /\ presult = Arr(<<Arr(<<Str("a")>>), Obj(<<Entry("b", Num(0))>>)>>)

(***************************************************************************)
(* C15: for an input that holds no null or undefined value anywhere,       *)
(* filterNulls returns a structurally equal value: every key, element,     *)
(* position and scalar is kept.                                            *)
(***************************************************************************)
C15_NullFreeUnchanged ==
    (ppc \in {"pruned", "twice"} /\ ~HasNullInside(pinput)) => presult = pinput

C15_Witness ==
    /\ ppc = "pruned"
    /\ pinput = Obj(<<Entry("a", Arr(<<Num(0), Str("a")>>)), Entry("b", Obj(<<Entry("b", Num(0))>>))>>)
    /\ presult = pinput

(***************************************************************************)
(* C16: filterNulls has no side effects: after the call, and after a       *)
(* later call, the caller's input still holds what it held, null-valued    *)
(* keys and null elements included; the arrays and objects of the result   *)
(* are new ones, none is one of the input's; and the result is the value   *)
(* that the input determines.                                              *)
(***************************************************************************)
C16_PruneIsPure ==
    ppc \in {"pruned", "twice"} =>
        /\ Deref(heap, hinput) = pinput
        /\ Reach(heap, hresult) \cap Reach(heap, hinput) = {}
        /\ Deref(heap, hresult) = filterNulls(pinput)
        /\ presult = filterNulls(pinput)

C16_Witness ==
    /\ ppc = "twice"
    /\ pinput = Obj(<<Entry("a", Null), Entry("b", Arr(<<Null, Str("a")>>))>>)
    /\ Deref(heap, hinput) = pinput
    /\ Deref(heap, hresult) = Obj(<<Entry("b", Arr(<<Str("a")>>))>>)
    /\ Reach(heap, hresult) \cap Reach(heap, hinput) = {}

(***************************************************************************)
(* Vocabulary of the construction properties                               *)
(***************************************************************************)
ParamNames == <<"platformID", "eventApiHostname", "eventApiKey">>

\* s holds nothing but white space (the empty string included)
WhiteSpaceOnly(s) ==
    \A i \in 1..Len(s) : SubSeq(s, i, i) \in {" ", "\t", "\n"}

\* null, empty or whitespace-only
InvalidParam(v) == v.t \in {"null", "undef"} \/ (v.t = "str" /\ WhiteSpaceOnly(v.v))

(***************************************************************************)
(* C17: with each argument null or a string, construction fails exactly    *)
(* when one of platformID, eventApiHostname, eventApiKey is null, empty or *)
(* whitespace-only; the message is "<name> cannot be null or empty" for    *)
(* the first such parameter and names no other parameter; after a failure  *)
(* the caller holds no connector, after a success it holds one.            *)
(***************************************************************************)
C17_ConstructorValidates ==
    (cpc = "done" /\ \A i \in 1..3 : ctorArgs[i].t \in {"null", "undef", "str"}) =>
        LET bad == {i \in 1..3 : InvalidParam(ctorArgs[i])}
        IN /\ (bad # {}) <=> (ctorError # NoError)
           /\ (bad = {}) <=> (connector # Null)
           /\ bad # {} =>
                LET first == CHOOSE i \in bad : \A j \in bad : i <= j
                IN /\ ctorError.name = "SyntaxError"
                   /\ ctorError.message = ParamNames[first] \o " cannot be null or empty"
                   /\ \A j \in 1..3 \ {first} :
                        ~Contains(ctorError.message, ParamNames[j])

C17_Witness ==
    /\ cpc = "done"
    /\ ctorArgs = <<Str("  TEST_PLATFORM \n"), Str("   "), Str("test-api-key")>>
    /\ ctorError = SyntaxError("eventApiHostname cannot be null or empty")
    /\ connector = Null

(***************************************************************************)
(* C18: every POST that send issues goes to                                *)
(* {hostname}/rmp/event/v1/platforms/{platformId}/userevents with the      *)
(* hostname and the platform id given at construction, trimmed, and        *)
(* carries the trimmed API key in x-api-key; no white space given at       *)
(* construction reaches the request, and every send of the connector has   *)
(* the same target.                                                        *)
(***************************************************************************)
C18_PostTarget ==
    request # NoRequest =>
        /\ Contains(ctorArgs[1].v, validPlatformId)
        /\ Contains(ctorArgs[2].v, validHostname)
        /\ Contains(ctorArgs[3].v, validApiKey)
        /\ request.method = "POST"
        /\ request.url =
              "https://api.test.com/rmp/event/v1/platforms/TEST_PLATFORM/userevents"
        /\ request.xApiKey = "test-api-key"

C18_Witness ==
    /\ ctorArgs[1] = Str("  TEST_PLATFORM \n")
    /\ ctorArgs[3] = Str("test-api-key\t")
    /\ idx = 2
    /\ spc = "ATTEMPT"
    /\ attempts = 2
    /\ request.url =
          "https://api.test.com/rmp/event/v1/platforms/TEST_PLATFORM/userevents"
    /\ request.xApiKey = "test-api-key"

(***************************************************************************)
(* C19: the body of every POST that send issues is the serialization of    *)
(* filterNulls(event) for the event of that call: the event has passed     *)
(* validation, the payload holds no null or undefined value at any depth   *)
(* and its text no null, and every field of the event that is not null is  *)
(* in the body, scalars with the value they had.                           *)
(***************************************************************************)
C19_PostBodyIsPrunedEvent ==
    request # NoRequest =>
        /\ ~FailsValidation(data)
        /\ request.body = Stringify(filterNulls(data))
        /\ filteredJson = filterNulls(data)
        /\ ~HasNullInside(filteredJson)
        /\ ~Contains(request.body, "null")
        /\ \A i \in 1..Len(data.v) :
              LET key == data.v[i].k
                  value == data.v[i].v
              IN value.t \notin {"null", "undef"} =>
                    /\ Contains(request.body, "\"" \o key \o "\":")
                    /\ value.t \in {"str", "num", "bool"} =>
                          Contains(request.body,
                                   "\"" \o key \o "\":" \o Stringify(value))

C19_Witness ==
    /\ spc = "ATTEMPT"
    /\ data = MkEvent(Str("PURCHASE"), Num(1617870506), Arr(<<Null, Item>>), Null, Undef)
    /\ request.body = "{\"event_type\":\"PURCHASE\",\"timestamp\":1617870506,"
                        \o "\"items\":[{\"id\":\"2199832\"}]}"

(***************************************************************************)
(* Vocabulary of the concurrency property                                  *)
(***************************************************************************)
\* what one send call on its own comes to for an event and the transport's
\* answer to its request
OutcomeAlone(event, answer) ==
    IF Falsy(event) THEN Raised(SyntaxError("The data cannot be null or empty"))
    ELSE IF validateData(event) # NoError THEN Raised(validateData(event))
    ELSE sendTry(answer)

(***************************************************************************)
(* C20: concurrent send calls on one connector are independent under       *)
(* every interleaving: the outcome of a finished call is the outcome that  *)
(* call has alone for its own event and the transport's answer to its own  *)
(* request, and its request is the one for its own event; a step of one    *)
(* call changes nothing of another call; and platformID, eventApiHostname  *)
(* and eventApiKey are what they were at construction after every send     *)
(* step and every close.                                                   *)
(***************************************************************************)
C20_CallsIndependent ==
    /\ [](\A c \in DOMAIN conc :
            /\ conc[c].pc \in SendTerminal =>
                  conc[c].result = OutcomeAlone(conc[c].data, conc[c].response)
            /\ conc[c].request # NoRequest =>
                  conc[c].request.body = Stringify(filterNulls(conc[c].data)))
    /\ [][\A c \in DOMAIN conc : conc'[c] # conc[c] =>
              \A d \in DOMAIN conc \ {c} : conc'[d] = conc[d]]_vars
    /\ [][connVars' = connVars]_vars

C20_Witness ==
    /\ closed = 1
    /\ conc[1].pc = "ATTEMPT"
    /\ conc[1].response = Response(400, "{\"error\": \"Bad Request\"}")
    /\ conc[2].pc = "SUCCESS"
    /\ conc[2].result = Returned("{\"success\": true}")
    /\ conc[1].data # conc[2].data
    /\ platformID = Str("TEST_PLATFORM")

IsScalar(x) == x.t \in {"str", "num", "bool"}

\* the positions of seq whose element is not null, in increasing order
RECURSIVE NonNullPositions(_, _)
NonNullPositions(seq, from) ==
    IF from > Len(seq) THEN <<>>
    ELSE IF seq[from].t \in {"null", "undef"} THEN NonNullPositions(seq, from + 1)
    ELSE <<from>> \o NonNullPositions(seq, from + 1)

(***************************************************************************)
(* C22: for an array, filterNulls returns the non-null elements in their   *)
(* original relative order, a scalar as it is and an array or object as    *)
(* what filterNulls returns for it; for an object, the keys of the result  *)
(* are the keys whose value is not null, in their order, with the same     *)
(* rule for the values.                                                    *)
(***************************************************************************)
C22_PruneKeepsNonNullInOrder ==
    ppc \in {"pruned", "twice"} =>
        /\ pinput.t = "arr" =>
              LET pos == NonNullPositions(pinput.v, 1)
              IN /\ presult.t = "arr"
                 /\ Len(presult.v) = Len(pos)
                 /\ \A i \in 1..Len(pos) :
                      LET elem == pinput.v[pos[i]]
                      IN IF IsScalar(elem) THEN presult.v[i] = elem
                         ELSE /\ presult.v[i] = filterNulls(elem)
                              /\ presult.v[i].t = elem.t
        /\ pinput.t = "obj" =>
              LET pos == NonNullPositions([i \in 1..Len(pinput.v) |-> pinput.v[i].v], 1)
              IN /\ presult.t = "obj"
                 /\ {presult.v[i].k : i \in 1..Len(presult.v)} =
                        {pinput.v[i].k : i \in {j \in 1..Len(pinput.v) :
                                                    pinput.v[j].v.t \notin {"null", "undef"}}}
                 /\ Len(presult.v) = Len(pos)
                 /\ \A i \in 1..Len(pos) :
                      LET entry == pinput.v[pos[i]]
                      IN /\ presult.v[i].k = entry.k
                         /\ IF IsScalar(entry.v) THEN presult.v[i].v = entry.v
                            ELSE /\ presult.v[i].v = filterNulls(entry.v)
                                 /\ presult.v[i].v.t = entry.v.t

C22_Witness ==
    /\ ppc = "pruned"
    /\ pinput = Arr(<<Arr(<<Null, Num(0)>>), Str("a")>>)
    /\ presult = Arr(<<Arr(<<Num(0)>>), Str("a")>>)

(***************************************************************************)
(* C23: the failure "filtered result is null" of send is never reached:    *)
(* for an event that is not null and that validateData accepts,            *)
(* filterNulls returns an object, so the step after a successful           *)
(* validation is always the POST.                                          *)
(***************************************************************************)
C23_FilteredNeverNull ==
    /\ [](/\ spc # "FAILED-SANITIZING"
          /\ spc = "SANITIZING" => ~FailsValidation(data)
          /\ spc \in {"ATTEMPT", "SUCCESS", "EXHAUSTED"} =>
                /\ ~FailsValidation(data)
                /\ filteredJson.t = "obj"
                /\ request # NoRequest)
    /\ [][spc = "SANITIZING" => (spc' = "ATTEMPT" /\ calls' = 1)]_vars

C23_Witness ==
    /\ spc = "ATTEMPT"
    /\ data = MkEvent(Str("HOME"), Str("1617870506121"), Null, Null, Undef)
    /\ filteredJson = MkEvent(Str("HOME"), Str("1617870506121"), Undef, Undef, Undef)
    /\ calls = 1

IsCommonError(err) ==
    /\ err.name = "SyntaxError"
    /\ \/ err.message = "Data parameter cannot be null"
       \/ StartsWith(err.message, "The timestamp field")
       \/ err.message = "The event_type field is missing"
       \/ StartsWith(err.message, "Unknown event type: ")

(***************************************************************************)
(* C24: validateData reports the first check that fails, in the order      *)
(* null event, timestamp missing, timestamp not numeric, event_type        *)
(* missing, event_type unknown, type-specific rule: a missing or           *)
(* non-numeric timestamp is reported whatever event_type and the other     *)
(* fields are; an error about event_type is reported only for a valid      *)
(* timestamp, and then whatever the type-specific fields are; and the      *)
(* outcome is that of the type-specific rule (an error of that rule, or    *)
(* success) only when the timestamp is valid and the type is supported.    *)
(***************************************************************************)
C24_FirstFailingCheckReported ==
    vpc = "validated" =>
        LET ts == Get(vdata, "timestamp")
            ty == Get(vdata, "event_type")
        IN /\ vdata.t \in {"null", "undef"} =>
                vresult = SyntaxError("Data parameter cannot be null")
           /\ (vdata.t \notin {"null", "undef"} /\ ~Present(ts)) =>
                /\ vresult.name = "SyntaxError"
                /\ StartsWith(vresult.message, "The timestamp field must be present")
           /\ (vdata.t \notin {"null", "undef"} /\ NonNumericString(ts)) =>
                /\ vresult.name = "SyntaxError"
                /\ StartsWith(vresult.message,
                              "The timestamp field must be a Unix timestamp")
           /\ (vdata.t \notin {"null", "undef"} /\ ~IsTimestampError(vresult)) =>
                ValidTimestamp(ts)
           /\ (ValidTimestamp(ts) /\ ~NonEmptyString(ty)) =>
                vresult = SyntaxError("The event_type field is missing")
           /\ (ValidTimestamp(ts) /\ NonEmptyString(ty) /\ ~HasSupportedType(vdata)) =>
                vresult = SyntaxError("Unknown event type: " \o ty.v)
           /\ ~IsCommonError(vresult) =>
                (ValidTimestamp(ts) /\ HasSupportedType(vdata))

C24_Witness ==
    /\ vpc = "validated"
    /\ Get(vdata, "timestamp") = Str("invalid")
    /\ Get(vdata, "event_type") = Str("UNKNOWN")
    /\ Get(vdata, "items") = Arr(<<>>)
    /\ StartsWith(vresult.message, "The timestamp field must be a Unix timestamp")

(***************************************************************************)
(* C25: in the retry loop of the driver, connector.send is called at most  *)
(* maxRetries = 3 times for an event; a call follows another one for the   *)
(* same event only when that one failed with an error that is not a        *)
(* SyntaxError; after a successful call the loop is left; a SyntaxError is *)
(* rethrown after the first call with no wait; any other error is rethrown *)
(* after the third failed call.                                            *)
(***************************************************************************)
C25_DriverRetryLoop ==
    /\ [](dpc # "off" =>
            /\ attempts <= maxRetries
            /\ (dpc = "done" /\ idx >= 1 /\ caught.name = "SyntaxError") =>
                  /\ caught = result.error
                  /\ attempts = 1
                  /\ retryCount = 0
                  /\ waits = <<>>
            /\ (dpc = "done" /\ idx >= 1 /\ caught # NoError
                    /\ caught.name # "SyntaxError") =>
                  /\ caught = result.error
                  /\ attempts = maxRetries
                  /\ retryCount = maxRetries)
    /\ [][attempts' = attempts + 1 =>
            \/ attempts = 0
            \/ /\ result.kind = "throw"
               /\ ~InstanceOfSyntaxError(result.error)
               /\ spc = "EXHAUSTED"]_vars
    /\ [][(dpc = "await_send" /\ spc = "SUCCESS") =>
            (dpc' = "for" /\ attempts' = attempts)]_vars

C25_Witness ==
    /\ dpc = "await_send"
    /\ spc = "SUCCESS"
    /\ attempts = maxRetries
    /\ waits = <<100, 200>>
    /\ retryCount = 2

(***************************************************************************)
(* C26: both drivers send the events in list order, each call of send with *)
(* the event at the current index; the index moves by one, and past an     *)
(* event only after a call of send for it succeeded; once main has ended,  *)
(* with an error or without, nothing more is sent: after a SyntaxError or  *)
(* after the last allowed attempt failed, the later events are never sent, *)
(* and main ends without an error only past the last event.                *)
(***************************************************************************)
C26_EventsInOrderStopAtFailure ==
    /\ [](/\ dpc \in {"await_send", "m_await"} =>
                (idx >= 1 /\ spc # "idle" /\ data = userEvents[idx])
          /\ (dpc = "done" /\ idx >= 1 /\ caught # NoError) =>
                (result.kind = "throw" /\ caught = result.error)
          /\ (dpc = "done" /\ caught = NoError) => idx = Len(userEvents))
    /\ [][idx' # idx =>
            /\ idx' = idx + 1
            /\ idx = 0 \/ (spc = "SUCCESS" /\ result.kind = "return")]_vars
    /\ [][dpc # "done"]_vars

C26_Witness ==
    /\ dpc = "done"
    /\ Len(userEvents) = 2
    /\ idx = 1
    /\ attempts = 1
    /\ caught.name = "Error"
    /\ ~FailsValidation(userEvents[2])

=============================================================================
